---- MODULE Spec2Model ----
(***************************************************************************)
(* A model of setroot's RootPixmap (src/src/lib.rs): visual discovery,     *)
(* construction, put_image, set_background with its root-atom cooperation  *)
(* protocol, and destruction, together with the part of the X server the   *)
(* requests act on (atoms, root-window properties, the resource table,     *)
(* close-down modes and the root window's background).                     *)
(***************************************************************************)
EXTENDS Integers, Sequences, FiniteSets, TLC

\* ------------------------------------------------------------------ bounds

\* Visuals listed in one allowed-depths record of a screen.
MaxVisuals == 1
\* set_background calls made on one handle.
MaxCalls == 2

\* ------------------------------------------------------- program constants

\* x::Pixmap::none(), the resource id 0 (also KillClient's AllTemporary).
NoneId == 0
\* The two property names, in the order of the loop in set_root_atoms.
Names == <<"_XROOTPMAP_ID", "ESETROOT_PMAP_ID">>
NameIdx == DOMAIN Names

\* Clients of the X server.  Client c's handle owns pixmap id c.
Clients == {1, 2}
\* Pixmap ids left behind by earlier wallpaper setters.
OldIds == {3, 4}

\* ------------------------------------------------------ visual discovery

Depths == {8, 24, 32}
VisualIds == {1, 2}
RgbMasks == [red |-> 16711680, green |-> 65280, blue |-> 255]
BgrMasks == [red |-> 255, green |-> 65280, blue |-> 16711680]
ZeroRedMasks == [red |-> 0, green |-> 65280, blue |-> 255]
TenBitMasks == [red |-> 1072693248, green |-> 1047552, blue |-> 1023]
NoMasks == [red |-> 0, green |-> 0, blue |-> 0]

\* The (class, masks) combinations a visual is drawn from.
VisualKinds ==
    { [class |-> "TrueColor", masks |-> RgbMasks],
      [class |-> "TrueColor", masks |-> BgrMasks],
      [class |-> "TrueColor", masks |-> ZeroRedMasks],
      [class |-> "TrueColor", masks |-> TenBitMasks],
      [class |-> "PseudoColor", masks |-> NoMasks] }

Visuals ==
    { [visual_id |-> i, class |-> k.class, red_mask |-> k.masks.red,
       green_mask |-> k.masks.green, blue_mask |-> k.masks.blue] :
      i \in VisualIds, k \in VisualKinds }

SeqsUpTo(S, n) == UNION { [1..k -> S] : k \in 0..n }

DepthRecords == [depth : Depths, visuals : SeqsUpTo(Visuals, MaxVisuals)]

\* A screen lists two allowed-depths records (an empty one lists no visual).
DepthSlots == {1, 2}

AllScreens ==
    [root_depth : Depths, root_visual : VisualIds,
     allowed_depths : [DepthSlots -> DepthRecords]]

\* u32::trailing_zeros: 32 for zero.
RECURSIVE trailing_zeros(_)
trailing_zeros(m) ==
    IF m = 0 THEN 32
    ELSE IF m % 2 = 1 THEN 0
    ELSE 1 + trailing_zeros(m \div 2)

\* allowed_depths().filter(depth == scr_depth).flat_map(visuals), in order.
RECURSIVE VisualsAtDepth(_, _)
VisualsAtDepth(depths, scr_depth) ==
    IF depths = <<>> THEN <<>>
    ELSE (IF Head(depths).depth = scr_depth THEN Head(depths).visuals ELSE <<>>)
         \o VisualsAtDepth(Tail(depths), scr_depth)

\* The same iterator without the depth filter (a mutation of the lookup).
RECURSIVE VisualsAtAnyDepth(_, _)
VisualsAtAnyDepth(depths, scr_depth) ==
    IF depths = <<>> THEN <<>>
    ELSE Head(depths).visuals \o VisualsAtAnyDepth(Tail(depths), scr_depth)

RootVisualCandidates(depths, scr_depth) == VisualsAtDepth(depths, scr_depth)

\* Iterator::find: the first visual with the wanted id, or <<>> for None.
RECURSIVE FindVisual(_, _)
FindVisual(vis, id) ==
    IF vis = <<>> THEN <<>>
    ELSE IF Head(vis).visual_id = id THEN <<Head(vis)>>
    ELSE FindVisual(Tail(vis), id)

ShiftsResult(tag, depth, class, visual, shifts) ==
    [tag |-> tag, depth |-> depth, class |-> class, visual |-> visual,
     shifts |-> shifts]

NoResult == ShiftsResult("none", 0, "", 0, <<>>)

\* RootPixmap::get_rgb_shifts.
get_rgb_shifts(scr) ==
    LET scr_depth == scr.root_depth
        found == FindVisual(
            RootVisualCandidates(scr.allowed_depths, scr_depth),
            scr.root_visual)
    IN  IF found = <<>>
        THEN ShiftsResult("CouldNotFindRootVisual", 0, "", scr.root_visual, <<>>)
        ELSE LET visual == found[1] IN
             IF visual.class # "TrueColor"
                \/ (scr.root_depth # 24 /\ scr.root_depth # 32)
             THEN ShiftsResult("UnsupportedVisual", scr_depth, visual.class,
                               0, <<>>)
             ELSE ShiftsResult("Ok", 0, "", 0,
                      << trailing_zeros(visual.red_mask),
                         trailing_zeros(visual.green_mask),
                         trailing_zeros(visual.blue_mask) >>)

\* Screens the handle is constructed on in the full lifecycle model.
LifecycleScreens ==
    { [root_depth |-> 24, root_visual |-> 1,
       allowed_depths |-> <<
           [depth |-> 24, visuals |-> <<
               [visual_id |-> 1, class |-> "TrueColor",
                red_mask |-> RgbMasks.red, green_mask |-> RgbMasks.green,
                blue_mask |-> RgbMasks.blue]>>],
           [depth |-> 8, visuals |-> <<>>] >>],
      [root_depth |-> 8, root_visual |-> 1,
       allowed_depths |-> <<
           [depth |-> 8, visuals |-> <<
               [visual_id |-> 1, class |-> "PseudoColor",
                red_mask |-> 0, green_mask |-> 0, blue_mask |-> 0]>>],
           [depth |-> 24, visuals |-> <<>>] >>],
      [root_depth |-> 24, root_visual |-> 2,
       allowed_depths |-> <<
           [depth |-> 24, visuals |-> <<
               [visual_id |-> 1, class |-> "TrueColor",
                red_mask |-> RgbMasks.red, green_mask |-> RgbMasks.green,
                blue_mask |-> RgbMasks.blue]>>],
           [depth |-> 8, visuals |-> <<>>] >>] }

\* --------------------------------------------------------------- X server

\* A root-window property: its type atom, format and items; type "None"
\* when the window has no such property.
Property(type, format, items) ==
    [type |-> type, format |-> format, items |-> items]

NoProperty == Property("None", 0, <<>>)

\* What a property can hold before the program runs.
InitialProperties ==
    { NoProperty,
      Property("PIXMAP", 32, <<>>),
      Property("PIXMAP", 32, <<3, 4>>),
      Property("CARDINAL", 32, <<3>>),
      Property("PIXMAP", 8, <<3, 0, 0, 0>>) }
    \cup { Property("PIXMAP", 32, <<v>>) : v \in {NoneId} \cup OldIds }

Min(a, b) == IF a < b THEN a ELSE b

\* The reply to GetProperty{delete: false, type: ANY, long_offset: 0,
\* long_length: 1}: at most four bytes of the value are returned.
GetPropertyReply(p) ==
    IF p.type = "None"
    THEN [type |-> "None", format |-> 0, length |-> 0, bytes_after |-> 0,
          value |-> <<>>]
    ELSE LET unit == p.format \div 8
             total == Len(p.items) * unit
             sent == Min(total, 4)
         IN  [type |-> p.type, format |-> p.format,
              length |-> (sent + 3) \div 4,
              bytes_after |-> total - sent,
              value |-> SubSeq(p.items, 1, sent \div unit)]

VARIABLES
    screen,       \* the default screen of the display
    atomExists,   \* NameIdx -> whether the server has interned the name
    prop,         \* NameIdx -> the root window's property of that name
    rootBg,       \* the root window's background pixmap
    pixmaps,      \* pixmap ids in the server's resource table
    gcs,          \* clients whose graphics context is in the resource table
    closeDown,    \* client -> its close-down mode
    conn,         \* client -> "open" or "closed"
    pc,           \* client -> position in the client's program
    idx,          \* client -> index of `name` in the loop of set_root_atoms
    killed,       \* client -> `killed` / `prev_killed` (NoneId for None)
    target,       \* client -> pixmap_id about to be killed by clean_root_atom
    op,           \* client -> the method of the handle called last
    log,          \* client -> requests issued by that call so far
    result,       \* client -> its result, "none" until it returns
    propsBefore,  \* client -> `prop` when the current set_background began
    calls,        \* client -> set_background calls begun
    installed,    \* client -> some set_background has returned Ok
    newLog,       \* client -> requests issued by RootPixmap::new
    frees,        \* client -> free requests issued on the handle by any method
    shiftsResult, \* client -> result of get_rgb_shifts
    put,          \* client -> arguments and error of its last put_image
    img,          \* the arguments of the img.rs function under study
    xbuf          \* what that function returned, NoOutput before the call

vars == << screen, atomExists, prop, rootBg, pixmaps, gcs, closeDown, conn,
           pc, idx, killed, target, op, log, result, propsBefore, calls,
           installed, newLog, frees, shiftsResult, put, img, xbuf >>

serverVars == << atomExists, prop, rootBg, pixmaps, gcs, closeDown, conn >>
callVars == << idx, killed, target, op, log, result, propsBefore, calls,
              installed >>
imgVars == << img, xbuf >>

\* No put_image call to report, no img.rs function under study.
NoPut == [width |-> 0, height |-> 0, len |-> 0, err |-> << >>]
NoImage == [fn |-> "none"]
NoOutput == [tag |-> "none"]

\* A request as issued by the client; ok: the server received and accepted it.
Req(req, name, id, ok) == [req |-> req, name |-> name, id |-> id, ok |-> ok]

Alive(c) == conn[c] = "open"

\* self.pixmap.resource_id(): xcb's generate_id gives every client its own.
PixmapOf(c) == c

\* The client that created a resource, 0 for an earlier wallpaper setter
\* that has exited leaving the resource retained.
OwnerOf(id) == IF id \in Clients THEN id ELSE 0

\* Resources of client d, destroyed when d is closed down.
WithoutClient(set, d) == set \ {d}

\* Server side of KillClient{resource}: [pixmaps, gcs, conn] afterwards.
ServerKillClient(resource) ==
    LET dead == { d \in Clients :
                    conn[d] = "closed" /\ closeDown[d] = "RetainTemporary" }
        same == [pixmaps |-> pixmaps, gcs |-> gcs, conn |-> conn]
    IN  IF resource = NoneId
        THEN \* AllTemporary
             [pixmaps |-> pixmaps \ dead, gcs |-> gcs \ dead, conn |-> conn]
        ELSE IF resource \notin pixmaps
        THEN same   \* BadValue
        ELSE IF OwnerOf(resource) = 0
        THEN [pixmaps |-> pixmaps \ {resource}, gcs |-> gcs, conn |-> conn]
        ELSE LET d == OwnerOf(resource) IN
             IF conn[d] = "open" /\ closeDown[d] # "Destroy"
             THEN [pixmaps |-> pixmaps, gcs |-> gcs,
                   conn |-> [conn EXCEPT ![d] = "closed"]]
             ELSE [pixmaps |-> WithoutClient(pixmaps, d),
                   gcs |-> WithoutClient(gcs, d),
                   conn |-> [conn EXCEPT ![d] = "closed"]]

\* Server side of a sequence of create/free requests of client c.
RECURSIVE ApplyResourceReqs(_, _, _)
ApplyResourceReqs(res, reqs, c) ==
    IF reqs = <<>> THEN res
    ELSE LET r == Head(reqs)
             next ==
               IF ~r.ok THEN res
               ELSE IF r.req = "CreatePixmap"
               THEN [res EXCEPT !.pixmaps = @ \cup {r.id}]
               ELSE IF r.req = "CreateGc"
               THEN [res EXCEPT !.gcs = @ \cup {c}]
               ELSE IF r.req = "FreePixmap"
               THEN [res EXCEPT !.pixmaps = @ \ {r.id}]
               ELSE IF r.req = "FreeGc"
               THEN [res EXCEPT !.gcs = @ \ {c}]
               ELSE res
         IN  ApplyResourceReqs(next, Tail(reqs), c)

\* ---------------------------------------------------------- construction

\* Mutation: a failed CreateGc does not unwind the pixmap.
new_requests_leaky(c, createOk, gcOk) ==
    IF ~createOk THEN << Req("CreatePixmap", 0, PixmapOf(c), FALSE) >>
    ELSE << Req("CreatePixmap", 0, PixmapOf(c), TRUE),
            Req("CreateGc", 0, PixmapOf(c), gcOk) >>

\* Requests RootPixmap::new issues once the visual is accepted; createOk and
\* gcOk say whether the server accepts CreatePixmap and CreateGc.
new_requests(c, createOk, gcOk) ==
    IF ~createOk THEN << Req("CreatePixmap", 0, PixmapOf(c), FALSE) >>
    ELSE IF ~gcOk
    THEN << Req("CreatePixmap", 0, PixmapOf(c), TRUE),
            Req("CreateGc", 0, PixmapOf(c), FALSE),
            Req("FreePixmap", 0, PixmapOf(c), TRUE) >>
    ELSE << Req("CreatePixmap", 0, PixmapOf(c), TRUE),
            Req("CreateGc", 0, PixmapOf(c), TRUE) >>

\* RootPixmap::new, reached through Display::root_pixmap.
New(c) ==
    /\ pc[c] = "uninit"
    /\ Alive(c)
    /\ LET shifts == get_rgb_shifts(screen) IN
       /\ shiftsResult' = [shiftsResult EXCEPT ![c] = shifts]
       /\ IF shifts.tag # "Ok"
          THEN /\ pc' = [pc EXCEPT ![c] = "failed"]
               /\ UNCHANGED << newLog, pixmaps, gcs >>
          ELSE \E createOk \in BOOLEAN, gcOk \in BOOLEAN :
                 LET reqs == new_requests(c, createOk, gcOk)
                     res == ApplyResourceReqs(
                                [pixmaps |-> pixmaps, gcs |-> gcs], reqs, c)
                 IN  /\ newLog' = [newLog EXCEPT ![c] = reqs]
                     /\ pixmaps' = res.pixmaps
                     /\ gcs' = res.gcs
                     /\ pc' = [pc EXCEPT ![c] =
                                 IF createOk /\ gcOk THEN "ready" ELSE "failed"]
    /\ UNCHANGED << screen, atomExists, prop, rootBg, closeDown, conn, frees >>
    /\ UNCHANGED callVars
    /\ UNCHANGED << put, img, xbuf >>

\* ------------------------------------------------------------- put_image

ImageDims == {2, 65536}
ImageLens == {3, 4, 5}
U16Max == 65535

\* put_image sending whenever the dimensions fit, whatever the buffer holds.
put_image_check_any_length(img_width, img_height, len) ==
    IF img_width > U16Max \/ img_height > U16Max THEN "ImageTooLarge"
    ELSE "send"

\* RootPixmap::put_image: the error it returns before sending anything, or
\* "send" when put_image_impl is called.
put_image_check(img_width, img_height, len) ==
    IF img_width > U16Max \/ img_height > U16Max THEN "ImageTooLarge"
    ELSE IF img_width * img_height = len THEN "send"
    ELSE "BadImageBufferSize"

\* What the error of put_image carries: Error::ImageTooLarge(img_width,
\* img_height) with the arguments as given, Error::BadImageBufferSize(width,
\* height, img.len()) with the converted dimensions, which the conversion
\* leaves as they were since it succeeded.
put_image_error(check, img_width, img_height, len) ==
    IF check = "ImageTooLarge" THEN << img_width, img_height >>
    ELSE IF check = "BadImageBufferSize" THEN << img_width, img_height, len >>
    ELSE << >>

\* RootPixmap::put_image with put_image_impl.
PutImage(c) ==
    /\ pc[c] = "ready"
    /\ \E w \in ImageDims, h \in ImageDims, len \in ImageLens, accept \in BOOLEAN :
         LET check == put_image_check(w, h, len)
             ok == Alive(c) /\ accept /\ PixmapOf(c) \in pixmaps
         IN  /\ (check # "send" => accept)
             /\ result' = [result EXCEPT ![c] =
                   IF check # "send" THEN check
                   ELSE IF ok THEN "Ok" ELSE "XcbError"]
             /\ log' = [log EXCEPT ![c] =
                   IF check = "send"
                   THEN << Req("PutImage", 0, PixmapOf(c), ok) >> ELSE <<>>]
             /\ put' = [put EXCEPT ![c] =
                   [width |-> w, height |-> h, len |-> len,
                    err |-> put_image_error(check, w, h, len)]]
    /\ op' = [op EXCEPT ![c] = "put_image"]
    /\ propsBefore' = [propsBefore EXCEPT ![c] = prop]
    /\ UNCHANGED << screen, pc, idx, killed, target, calls, installed, newLog,
                    frees, shiftsResult >>
    /\ UNCHANGED serverVars
    /\ UNCHANGED imgVars

\* -------------------------------------------------------- set_background

Send(c, r) == log' = [log EXCEPT ![c] = Append(@, r)]
Goto(c, where) == pc' = [pc EXCEPT ![c] = where]

\* Entry of set_background and of set_root_atoms: `killed = None`, first name.
SetBackground(c) ==
    /\ pc[c] = "ready"
    /\ calls[c] < MaxCalls
    /\ calls' = [calls EXCEPT ![c] = @ + 1]
    /\ idx' = [idx EXCEPT ![c] = 1]
    /\ killed' = [killed EXCEPT ![c] = NoneId]
    /\ target' = [target EXCEPT ![c] = NoneId]
    /\ op' = [op EXCEPT ![c] = "set_background"]
    /\ log' = [log EXCEPT ![c] = <<>>]
    /\ result' = [result EXCEPT ![c] = "none"]
    /\ propsBefore' = [propsBefore EXCEPT ![c] = prop]
    /\ Goto(c, "intern")
    /\ UNCHANGED << screen, installed, newLog, frees, shiftsResult >>
    /\ UNCHANGED serverVars
    /\ put' = [put EXCEPT ![c] = NoPut]
    /\ UNCHANGED imgVars

\* Where set_root_atoms goes after InternAtom{only_if_exists: true}.
after_intern(ok, exists) ==
    IF ~ok THEN "killtemp" ELSE IF exists THEN "getprop" ELSE "create"

\* InternAtom{only_if_exists: true} and the wait for its reply.
InternAtom(c) ==
    /\ pc[c] = "intern"
    /\ \E fail \in BOOLEAN :
         LET ok == Alive(c) /\ ~fail IN
         /\ Send(c, Req("InternAtom", idx[c], 0, ok))
         /\ Goto(c, after_intern(ok, atomExists[idx[c]]))
    /\ UNCHANGED << screen, idx, killed, target, result, op, propsBefore, calls,
                    installed, newLog, frees, shiftsResult, put, img, xbuf >>
    /\ UNCHANGED serverVars

\* InternAtom{only_if_exists: false}: the atom did not exist, create it.
\* The server answers this request with an atom or with an error, never with
\* ATOM_NONE, so the `atom.is_none()` arm of the match is not reached.
InternAtomCreate(c) ==
    /\ pc[c] = "create"
    /\ \E fail \in BOOLEAN :
         LET ok == Alive(c) /\ ~fail IN
         /\ Send(c, Req("InternAtomCreate", idx[c], 0, ok))
         /\ atomExists' = [atomExists EXCEPT ![idx[c]] = @ \/ ok]
         /\ Goto(c, IF ok THEN "chprop" ELSE "killtemp")
    /\ UNCHANGED << screen, prop, rootBg, pixmaps, gcs, closeDown, conn,
                    idx, killed, target, result, op, propsBefore, calls,
                    installed, newLog, frees, shiftsResult, put, img, xbuf >>

\* Mutation: bytes_after is not looked at.
reply_is_pixmap_first_item(reply) ==
    /\ reply.type = "PIXMAP"
    /\ reply.format = 32
    /\ reply.length = 1

\* clean_root_atom: the reply is one PIXMAP item read in full.
reply_is_pixmap(reply) ==
    /\ reply.type = "PIXMAP"
    /\ reply.format = 32
    /\ reply.length = 1
    /\ reply.bytes_after = 0

\* reply.value::<u32>().first().copied().unwrap_or_default()
reply_pixmap_id(reply) ==
    IF reply.value = <<>> THEN NoneId ELSE reply.value[1]

\* Mutation: nothing is killed once some id has been killed in this call.
should_kill_first_only(reply, prev_killed) ==
    /\ reply_is_pixmap(reply)
    /\ reply_pixmap_id(reply) # NoneId
    /\ prev_killed = NoneId

\* Mutation: prev_killed is not consulted.
should_kill_unconditionally(reply, prev_killed) ==
    /\ reply_is_pixmap(reply)
    /\ reply_pixmap_id(reply) # NoneId

\* clean_root_atom: whether KillClient is sent for the property's value.
should_kill(reply, prev_killed) ==
    /\ reply_is_pixmap(reply)
    /\ reply_pixmap_id(reply) # NoneId
    /\ reply_pixmap_id(reply) # prev_killed

\* clean_root_atom: GetProperty and the wait for its reply.
GetProperty(c) ==
    /\ pc[c] = "getprop"
    /\ \E fail \in BOOLEAN :
         LET ok == Alive(c) /\ ~fail
             reply == GetPropertyReply(prop[idx[c]])
             kill == ok /\ should_kill(reply, killed[c])
         IN  /\ Send(c, Req("GetProperty", idx[c], 0, ok))
             /\ target' = [target EXCEPT ![c] =
                              IF kill THEN reply_pixmap_id(reply) ELSE NoneId]
             /\ Goto(c, IF kill THEN "kill" ELSE "chprop")
    /\ UNCHANGED << screen, idx, killed, result, op, propsBefore, calls,
                    installed, newLog, frees, shiftsResult, put, img, xbuf >>
    /\ UNCHANGED serverVars

\* clean_root_atom: KillClient{resource: pixmap_id}; *prev_killed = Some(id).
KillClient(c) ==
    /\ pc[c] = "kill"
    /\ LET after == ServerKillClient(target[c])
           ok == Alive(c) /\ target[c] \in pixmaps
       IN  /\ Send(c, Req("KillClient", idx[c], target[c], ok))
           /\ pixmaps' = IF Alive(c) THEN after.pixmaps ELSE pixmaps
           /\ gcs' = IF Alive(c) THEN after.gcs ELSE gcs
           /\ conn' = IF Alive(c) THEN after.conn ELSE conn
    /\ killed' = [killed EXCEPT ![c] = target[c]]
    /\ Goto(c, "chprop")
    /\ UNCHANGED << screen, atomExists, prop, rootBg, closeDown, idx, target,
                    result, op, propsBefore, calls, installed, newLog, frees,
                    shiftsResult >>
    /\ UNCHANGED << put, img, xbuf >>

\* Mutation: the id is written under the wrong type atom.
property_data_cardinal(c) == Property("CARDINAL", 32, << PixmapOf(c) >>)

\* data: &[self.pixmap.resource_id()] with type PIXMAP.
property_data(c) == Property("PIXMAP", 32, << PixmapOf(c) >>)

\* The end of one iteration of the loop over the two names.
after_change_property(i) == IF i < Len(Names) THEN "intern" ELSE "killtemp"

\* ChangeProperty{mode: Replace}, sent unchecked.
ChangeProperty(c) ==
    /\ pc[c] = "chprop"
    /\ \E fail \in BOOLEAN :
         LET ok == Alive(c) /\ ~fail IN
         /\ Send(c, Req("ChangeProperty", idx[c], PixmapOf(c), ok))
         /\ prop' = IF ok THEN [prop EXCEPT ![idx[c]] = property_data(c)]
                    ELSE prop
    /\ idx' = [idx EXCEPT ![c] = IF @ < Len(Names) THEN @ + 1 ELSE @]
    /\ Goto(c, after_change_property(idx[c]))
    /\ UNCHANGED << screen, atomExists, rootBg, pixmaps, gcs, closeDown, conn,
                    killed, target, result, op, propsBefore, calls, installed,
                    newLog, frees, shiftsResult >>
    /\ UNCHANGED << put, img, xbuf >>

\* set_background: KillClient{resource: 0}, AllTemporary.
KillAllTemporary(c) ==
    /\ pc[c] = "killtemp"
    /\ LET after == ServerKillClient(NoneId) IN
       /\ Send(c, Req("KillClient", 0, NoneId, Alive(c)))
       /\ pixmaps' = IF Alive(c) THEN after.pixmaps ELSE pixmaps
       /\ gcs' = IF Alive(c) THEN after.gcs ELSE gcs
    /\ Goto(c, "closedown")
    /\ UNCHANGED << screen, atomExists, prop, rootBg, closeDown, conn, idx,
                    killed, target, result, op, propsBefore, calls, installed,
                    newLog, frees, shiftsResult >>
    /\ UNCHANGED << put, img, xbuf >>

\* set_background: SetCloseDownMode{mode: RetainTemporary}.
SetCloseDownMode(c) ==
    /\ pc[c] = "closedown"
    /\ Send(c, Req("SetCloseDownMode", 0, 0, Alive(c)))
    /\ closeDown' = IF Alive(c)
                    THEN [closeDown EXCEPT ![c] = "RetainTemporary"]
                    ELSE closeDown
    /\ Goto(c, "cwa")
    /\ UNCHANGED << screen, atomExists, prop, rootBg, pixmaps, gcs, conn, idx,
                    killed, target, result, op, propsBefore, calls, installed,
                    newLog, frees, shiftsResult >>
    /\ UNCHANGED << put, img, xbuf >>

\* Mutation: the result of the check is dropped, Ok(()) is returned.
change_window_attributes_ignored(ok) == IF ok THEN "none" ELSE "Ok"

\* Mutation: ClearArea is sent whatever the check says.
after_change_window_attributes_unchecked(ok) == "clear"

\* The `?` on send_and_check_request(ChangeWindowAttributes).
after_change_window_attributes(ok) == IF ok THEN "clear" ELSE "ready"
change_window_attributes_result(ok) == IF ok THEN "none" ELSE "XcbError"

\* set_background: ChangeWindowAttributes{BackPixmap(self.pixmap)}, checked.
ChangeWindowAttributes(c) ==
    /\ pc[c] = "cwa"
    /\ \E fail \in BOOLEAN :
         LET ok == Alive(c) /\ ~fail /\ PixmapOf(c) \in pixmaps IN
         /\ Send(c, Req("ChangeWindowAttributes", 0, PixmapOf(c), ok))
         /\ rootBg' = IF ok THEN PixmapOf(c) ELSE rootBg
         /\ result' = [result EXCEPT ![c] = change_window_attributes_result(ok)]
         /\ Goto(c, after_change_window_attributes(ok))
    /\ UNCHANGED << screen, atomExists, prop, pixmaps, gcs, closeDown, conn,
                    idx, killed, target, op, propsBefore, calls, installed,
                    newLog, frees, shiftsResult >>
    /\ UNCHANGED << put, img, xbuf >>

\* set_background: ClearArea on the root window, then Ok(()).
ClearArea(c) ==
    /\ pc[c] = "clear"
    /\ Send(c, Req("ClearArea", 0, 0, Alive(c)))
    /\ result' = [result EXCEPT ![c] = "Ok"]
    /\ installed' = [installed EXCEPT ![c] = TRUE]
    /\ Goto(c, "ready")
    /\ UNCHANGED << screen, idx, killed, target, op, propsBefore, calls, newLog,
                    frees, shiftsResult >>
    /\ UNCHANGED serverVars
    /\ UNCHANGED << put, img, xbuf >>

\* ----------------------------------------------------------- destruction

\* Mutation: only the pixmap is freed.
drop_requests_pixmap_only(c) ==
    << Req("FreePixmap", 0, PixmapOf(c), Alive(c)) >>

\* Drop for RootPixmap: the two requests it sends.
drop_requests(c) ==
    << Req("FreeGc", 0, PixmapOf(c), Alive(c)),
       Req("FreePixmap", 0, PixmapOf(c), Alive(c)) >>

\* Drop for RootPixmap.
Drop(c) ==
    /\ pc[c] = "ready"
    /\ LET reqs == drop_requests(c)
           res == ApplyResourceReqs([pixmaps |-> pixmaps, gcs |-> gcs], reqs, c)
       IN  /\ frees' = [frees EXCEPT ![c] = @ \o reqs]
           /\ pixmaps' = res.pixmaps
           /\ gcs' = res.gcs
    /\ Goto(c, "dropped")
    /\ UNCHANGED << screen, atomExists, prop, rootBg, closeDown, conn, newLog,
                    shiftsResult >>
    /\ UNCHANGED callVars
    /\ UNCHANGED << put, img, xbuf >>

\* The Display (and its xcb::Connection) is dropped after the handle that
\* borrows it: the server closes the client down by its close-down mode.
Disconnect(c) ==
    /\ pc[c] \in {"dropped", "failed"}
    /\ conn' = [conn EXCEPT ![c] = "closed"]
    /\ LET destroy == Alive(c) /\ closeDown[c] = "Destroy" IN
       /\ pixmaps' = IF destroy THEN WithoutClient(pixmaps, c) ELSE pixmaps
       /\ gcs' = IF destroy THEN WithoutClient(gcs, c) ELSE gcs
    /\ Goto(c, "closed")
    /\ UNCHANGED << screen, atomExists, prop, rootBg, closeDown, newLog, frees,
                    shiftsResult >>
    /\ UNCHANGED callVars
    /\ UNCHANGED << put, img, xbuf >>

\* ------------------------------------------------------- specifications

InitClients ==
    /\ closeDown = [c \in Clients |-> "Destroy"]
    /\ conn = [c \in Clients |-> "open"]
    /\ pc = [c \in Clients |-> "uninit"]
    /\ idx = [c \in Clients |-> 1]
    /\ killed = [c \in Clients |-> NoneId]
    /\ target = [c \in Clients |-> NoneId]
    /\ log = [c \in Clients |-> <<>>]
    /\ result = [c \in Clients |-> "none"]
    /\ calls = [c \in Clients |-> 0]
    /\ installed = [c \in Clients |-> FALSE]
    /\ newLog = [c \in Clients |-> <<>>]
    /\ frees = [c \in Clients |-> <<>>]
    /\ shiftsResult = [c \in Clients |-> NoResult]
    /\ op = [c \in Clients |-> "none"]
    /\ put = [c \in Clients |-> NoPut]

\* The lifecycle of the handle calls nothing of img.rs.
InitNoImage ==
    /\ img = NoImage
    /\ xbuf = NoOutput

\* The server as the program finds it: a property exists only under an
\* interned name, the root has no background pixmap of this program, and of
\* the old pixmap ids one is still a resource of the server and one is not.
InitServer ==
    /\ atomExists \in [NameIdx -> BOOLEAN]
    /\ prop \in [NameIdx -> InitialProperties]
    /\ \A i \in NameIdx : prop[i] # NoProperty => atomExists[i]
    /\ rootBg = NoneId
    /\ pixmaps = OldIds \ {3}
    /\ gcs = {}

Init ==
    /\ screen \in LifecycleScreens
    /\ InitServer
    /\ InitClients
    /\ InitNoImage
    /\ propsBefore = [c \in Clients |-> prop]

\* One step of client c's program.
Step(c) ==
    \/ New(c)
    \/ PutImage(c)
    \/ SetBackground(c)
    \/ InternAtom(c)
    \/ InternAtomCreate(c)
    \/ GetProperty(c)
    \/ KillClient(c)
    \/ ChangeProperty(c)
    \/ KillAllTemporary(c)
    \/ SetCloseDownMode(c)
    \/ ChangeWindowAttributes(c)
    \/ ClearArea(c)
    \/ Drop(c)
    \/ Disconnect(c)

\* A single client on the display.
Next == Step(1)

Spec == Init /\ [][Next]_vars

\* Visual discovery alone, over every screen within the bounds.
Discover(c) ==
    /\ pc[c] = "uninit"
    /\ shiftsResult[c] = NoResult
    /\ shiftsResult' = [shiftsResult EXCEPT ![c] = get_rgb_shifts(screen)]
    /\ UNCHANGED << screen, pc, newLog, frees >>
    /\ UNCHANGED serverVars
    /\ UNCHANGED callVars
    /\ UNCHANGED << put, img, xbuf >>

InitVisual ==
    /\ screen \in AllScreens
    /\ atomExists = [i \in NameIdx |-> FALSE]
    /\ prop = [i \in NameIdx |-> NoProperty]
    /\ rootBg = NoneId
    /\ pixmaps = {}
    /\ gcs = {}
    /\ InitClients
    /\ InitNoImage
    /\ propsBefore = [c \in Clients |-> prop]

NextVisual == Discover(1)

SpecVisual == InitVisual /\ [][NextVisual]_vars

\* ------------------------------------------------ claims: visual discovery

\* Positions <<record, visual>> of the visuals that carry the root visual id
\* in an allowed-depths record of the root depth.
RootVisualPositions(scr) ==
    { p \in (DOMAIN scr.allowed_depths) \X (1..(MaxVisuals + 1)) :
        /\ scr.allowed_depths[p[1]].depth = scr.root_depth
        /\ p[2] \in DOMAIN scr.allowed_depths[p[1]].visuals
        /\ scr.allowed_depths[p[1]].visuals[p[2]].visual_id = scr.root_visual }

\* The first of them in the order the records and their visuals are listed.
FirstRootVisual(scr) ==
    LET ps == RootVisualPositions(scr)
        p == CHOOSE q \in ps : \A o \in ps :
                 q[1] < o[1] \/ (q[1] = o[1] /\ q[2] <= o[2])
    IN  scr.allowed_depths[p[1]].visuals[p[2]]

\* s is the number of trailing zero bits of the 32-bit mask m (the masks of
\* VisualKinds are below 2^31, so a non-zero one has at most 30 of them).
IsTrailingZeroCount(m, s) ==
    IF m = 0 THEN s = 32
    ELSE s \in 0..30 /\ m % (2 ^ s) = 0 /\ (m \div (2 ^ s)) % 2 = 1

\* The mask is eight contiguous bits: shifted right by its trailing-zero
\* count it is exactly 0xFF.
IsEightBitMask(m) ==
    \E s \in 0..30 : IsTrailingZeroCount(m, s) /\ m \div (2 ^ s) = 255

Discovered == shiftsResult[1] # NoResult

\* C9: discovery accepts a screen only if each of the red, green and blue
\* masks of its root visual, shifted right by its trailing-zero count, is
\* exactly 0xFF; a TrueColor visual at depth 24 or 32 with a mask failing
\* this is rejected with UnsupportedVisual.
C9_MasksVerified ==
    Discovered =>
      LET r == shiftsResult[1] IN
      /\ r.tag = "Ok" =>
           LET v == FirstRootVisual(screen) IN
           /\ IsEightBitMask(v.red_mask)
           /\ IsEightBitMask(v.green_mask)
           /\ IsEightBitMask(v.blue_mask)
      /\ ( /\ RootVisualPositions(screen) # {}
           /\ screen.root_depth \in {24, 32}
           /\ FirstRootVisual(screen).class = "TrueColor"
           /\ \/ ~IsEightBitMask(FirstRootVisual(screen).red_mask)
              \/ ~IsEightBitMask(FirstRootVisual(screen).green_mask)
              \/ ~IsEightBitMask(FirstRootVisual(screen).blue_mask) )
         => r.tag = "UnsupportedVisual"

\* C10: the root visual is looked for only among the visuals of the
\* allowed-depths records of the root depth; none gives
\* CouldNotFindRootVisual; a visual that is not TrueColor, or a root depth
\* other than 24 and 32, gives UnsupportedVisual(depth, class); otherwise the
\* result is the trailing-zero counts of the three masks, (16, 8, 0) for the
\* masks 0xFF0000, 0x00FF00, 0x0000FF.
C10_Discovery ==
    Discovered =>
      LET r == shiftsResult[1] IN
      IF RootVisualPositions(screen) = {}
      THEN r.tag = "CouldNotFindRootVisual" /\ r.visual = screen.root_visual
      ELSE LET v == FirstRootVisual(screen) IN
           IF v.class # "TrueColor" \/ screen.root_depth \notin {24, 32}
           THEN /\ r.tag = "UnsupportedVisual"
                /\ r.depth = screen.root_depth
                /\ r.class = v.class
           ELSE /\ r.tag = "Ok"
                /\ Len(r.shifts) = 3
                /\ IsTrailingZeroCount(v.red_mask, r.shifts[1])
                /\ IsTrailingZeroCount(v.green_mask, r.shifts[2])
                /\ IsTrailingZeroCount(v.blue_mask, r.shifts[3])
                /\ ( /\ v.red_mask = 16711680
                     /\ v.green_mask = 65280
                     /\ v.blue_mask = 255 ) => r.shifts = <<16, 8, 0>>

\* Discovery gave (16, 8, 0) on a screen that also lists a visual with the
\* root visual id under another depth.
C10_Witness ==
    /\ Discovered
    /\ shiftsResult[1].tag = "Ok"
    /\ shiftsResult[1].shifts = <<16, 8, 0>>
    /\ \E i \in DOMAIN screen.allowed_depths :
         /\ screen.allowed_depths[i].depth # screen.root_depth
         /\ \E j \in DOMAIN screen.allowed_depths[i].visuals :
              screen.allowed_depths[i].visuals[j].visual_id = screen.root_visual

\* ------------------------------------------------- claims: set_background

\* set_background has returned to its caller (and nothing was called since).
Returned(c) == pc[c] = "ready" /\ op[c] = "set_background"
ReturnedOk(c) == Returned(c) /\ result[c] = "Ok"

\* Positions in the current call's log of the requests of one kind.
Sent(c, req) == { k \in DOMAIN log[c] : log[c][k].req = req }
\* ... of one kind about the property of index i.
SentFor(c, req, i) == { k \in Sent(c, req) : log[c][k].name = i }
\* ... of one kind that the server received and accepted.
Accepted(c, req, i) == { k \in SentFor(c, req, i) : log[c][k].ok }
\* KillClient requests aimed at a resource (not AllTemporary).
Kills(c) == { k \in Sent(c, "KillClient") : log[c][k].name \in NameIdx }
KillsOf(c, id) == { k \in Kills(c) : log[c][k].id = id }

\* The property holds exactly the pixmap id, as one PIXMAP item.
Holds(p, id) == p = Property("PIXMAP", 32, <<id>>)
\* The pixmap ids a property holds.
HeldBy(p) == IF p.type = "PIXMAP" /\ p.format = 32 /\ Len(p.items) = 1
             THEN {p.items[1]} ELSE {}

BothHoldOwn(c) == \A i \in NameIdx : Holds(prop[i], PixmapOf(c))

Stale(c, i) == HeldBy(propsBefore[c][i]) \ {NoneId, PixmapOf(c)}

KilledAtMostOnce(c) ==
    \A j, k \in Kills(c) : log[c][j].id = log[c][k].id => j = k

\* A call that began with both properties holding the handle's own pixmap id.
RepeatedCall(c) ==
    /\ Returned(c)
    /\ \A i \in NameIdx : Holds(propsBefore[c][i], PixmapOf(c))

ErrorIffAttributesFailed(c) ==
    /\ Cardinality(Sent(c, "ChangeWindowAttributes")) = 1
    /\ result[c] \in {"Ok", "XcbError"}
    /\ result[c] = "XcbError"
         <=> \E k \in Sent(c, "ChangeWindowAttributes") : ~log[c][k].ok

\* C4: set_background returns an error if and only if the final
\* ChangeWindowAttributes request fails; a failure of atom interning, of the
\* property read, of a property write or of a kill-client never makes it
\* return an error and never keeps ChangeWindowAttributes from being issued.
C4_OnlyAttributesFatal == Returned(1) => ErrorIffAttributesFailed(1)

\* A call that returned Ok although an atom lookup failed.
C4_Witness ==
    /\ ReturnedOk(1)
    /\ \E k \in Sent(1, "InternAtom") : ~log[1][k].ok

\* C5: after set_background has succeeded and the handle has been destroyed
\* and its connection closed, the pixmap whose id the two properties hold
\* (the root window's background) still exists on the server.
C5_PixmapSurvives ==
    ( /\ pc[1] = "closed"
      /\ installed[1]
      /\ BothHoldOwn(1)
      /\ rootBg = PixmapOf(1) )
    => PixmapOf(1) \in pixmaps

\* Every request of kind `before` (about property i) precedes every request
\* of kind `after` (about property j) in the call's log.
Precedes(c, before, i, after, j) ==
    \A a \in SentFor(c, before, i), b \in SentFor(c, after, j) : a < b

PropertyRequests == {"InternAtom", "InternAtomCreate", "GetProperty",
                     "KillClient", "ChangeProperty"}

\* C6: in every run of set_background, for each property (first
\* _XROOTPMAP_ID, then ESETROOT_PMAP_ID) a kill-client of its old value
\* precedes the write of the new value; kill-client(AllTemporary) and
\* SetCloseDownMode come after both property steps and before
\* ChangeWindowAttributes; ClearArea is issued only after
\* ChangeWindowAttributes has succeeded.
C6_RequestOrder ==
    op[1] = "set_background" =>
      /\ \A i \in NameIdx : Precedes(1, "KillClient", i, "ChangeProperty", i)
      /\ \A q, r \in PropertyRequests : Precedes(1, q, 1, r, 2)
      /\ \A q \in PropertyRequests, i \in NameIdx :
           /\ Precedes(1, q, i, "KillClient", 0)
           /\ Precedes(1, q, i, "SetCloseDownMode", 0)
      /\ Precedes(1, "KillClient", 0, "ChangeWindowAttributes", 0)
      /\ Precedes(1, "SetCloseDownMode", 0, "ChangeWindowAttributes", 0)
      /\ \A k \in Sent(1, "ClearArea") :
           \E j \in Sent(1, "ChangeWindowAttributes") : j < k /\ log[1][j].ok
      /\ Returned(1) =>
           /\ Cardinality(SentFor(1, "KillClient", 0)) = 1
           /\ Cardinality(Sent(1, "SetCloseDownMode")) = 1
           /\ Cardinality(Sent(1, "ChangeWindowAttributes")) = 1
           /\ result[1] = "Ok" <=> Sent(1, "ClearArea") # {}

\* A successful call that killed and rewrote both properties.
C6_Witness ==
    /\ ReturnedOk(1)
    /\ \A i \in NameIdx :
         SentFor(1, "KillClient", i) # {} /\ SentFor(1, "ChangeProperty", i) # {}

\* ---------------------------------------------- claims: handle lifecycle

\* RootPixmap::new has returned and nothing was called on the handle since.
JustConstructed(c) ==
    pc[c] \in {"ready", "failed"} /\ op[c] = "none"

\* C7: construction is all-or-nothing: for every combination of failures of
\* visual discovery, CreatePixmap and CreateGc, either a handle is returned
\* with the pixmap and the graphics context allocated, or an error is
\* returned and no resource the constructor allocated remains (a pixmap
\* created before a failed CreateGc has a FreePixmap issued for it).
C7_AllOrNothing ==
    JustConstructed(1) =>
      /\ pc[1] = "ready" =>
           /\ shiftsResult[1].tag = "Ok"
           /\ PixmapOf(1) \in pixmaps /\ 1 \in gcs
      /\ pc[1] = "failed" =>
           /\ PixmapOf(1) \notin pixmaps /\ 1 \notin gcs
           /\ \A k \in DOMAIN newLog[1] :
                (newLog[1][k].req = "CreatePixmap" /\ newLog[1][k].ok) =>
                  \E j \in DOMAIN newLog[1] :
                    /\ j > k
                    /\ newLog[1][j] = Req("FreePixmap", 0, PixmapOf(1), TRUE)

\* Construction failed at CreateGc after the pixmap was created.
C7_Witness ==
    /\ JustConstructed(1) /\ pc[1] = "failed"
    /\ \E k \in DOMAIN newLog[1] :
         newLog[1][k].req = "CreatePixmap" /\ newLog[1][k].ok
    /\ \E k \in DOMAIN newLog[1] :
         newLog[1][k].req = "CreateGc" /\ ~newLog[1][k].ok

FreeRequests == {"FreeGc", "FreePixmap"}

\* C8: over any sequence of put_image and set_background calls followed by
\* destruction, the pixmap and the graphics context are allocated together
\* for the whole Ready state, no operation other than destruction frees
\* either, and destruction issues exactly one free request for each.
C8_PairedResources ==
    /\ pc[1] \notin {"uninit", "failed", "dropped", "closed"} =>
         /\ PixmapOf(1) \in pixmaps /\ 1 \in gcs
         /\ frees[1] = <<>>
         /\ \A k \in DOMAIN log[1] : log[1][k].req \notin FreeRequests
    /\ pc[1] = "dropped" \/ (pc[1] = "closed" /\ newLog[1] # <<>>
                              /\ \A k \in DOMAIN newLog[1] : newLog[1][k].ok) =>
         /\ \A q \in FreeRequests :
              Cardinality({ k \in DOMAIN frees[1] :
                  frees[1][k].req = q /\ frees[1][k].id = PixmapOf(1) }) = 1
         /\ Len(frees[1]) = 2
         /\ \A k \in DOMAIN log[1] : log[1][k].req \notin FreeRequests

\* A handle destroyed after two installations.
C8_Witness ==
    /\ pc[1] = "dropped"
    /\ installed[1]
    /\ calls[1] > 1
    /\ Len(frees[1]) = 2


\* ------------------------------------------------------- img.rs: packing

\* A u32 is the set of the positions of its one bits, bit 0 the least
\* significant: `|` is the union and a shift moves the positions.
WordBits == 0..31

\* u32::from of a u8.
Bits(v) == { i \in 0..7 : (v \div 2^i) % 2 = 1 }

\* `w << s` for s below the width: bits shifted out are lost.
shl(w, s) == { i + s : i \in w } \cap WordBits

\* `w >> s` for s below the width, and `w as u8` as a number.
shr(w, s) == { i - s : i \in w } \cap WordBits
LowByte(w) ==
    LET bit(i) == IF i \in w THEN 2^i ELSE 0
    IN  bit(0) + bit(1) + bit(2) + bit(3) + bit(4) + bit(5) + bit(6) + bit(7)

\* u32::to_ne_bytes: the least significant byte first on a little-endian
\* target, last on a big-endian one.
Endians == {"little", "big"}
to_ne_bytes(w, endian) ==
    LET byte(k) == LowByte(shr(w, 8 * k))
    IN  IF endian = "little" THEN << byte(0), byte(1), byte(2), byte(3) >>
        ELSE << byte(3), byte(2), byte(1), byte(0) >>

\* The types of a colour component that are integers.
Subpixels == {"u8", "u16"}

\* Subpixel::to_u8 for u8 and for u16.
to_u8(S, v) == IF S = "u8" THEN v ELSE v \div 256

\* size_of::<S>().
size_of(S) == IF S = "u8" THEN 1 ELSE 2

\* The result of get_rgb_shifts as the RgbShifts of img.rs.
RgbShifts(t) == [r |-> t[1], g |-> t[2], b |-> t[3]]

\* `u32 << u8` with a shift of the width or more: a panic where overflow is
\* checked, elsewhere the shift by the amount modulo the width.
shl_overflows(shifts) == shifts.r >= 32 \/ shifts.g >= 32 \/ shifts.b >= 32

\* RgbShifts::from_rgb where it does not panic.
from_rgb(shifts, r, g, b, S) ==
    shl(Bits(to_u8(S, r)), shifts.r % 32)
        \cup shl(Bits(to_u8(S, g)), shifts.g % 32)
        \cup shl(Bits(to_u8(S, b)), shifts.b % 32)

\* RgbShifts::from_luma: the product with 0x0101_0101 is the byte in each of
\* the four byte lanes, none of which carries into the next.
from_luma(shifts, luma, S) ==
    LET w == Bits(to_u8(S, luma))
    IN  w \cup shl(w, 8) \cup shl(w, 16) \cup shl(w, 24)

\* One screen for every kind of visual: the root visual is its only visual.
KindScreens ==
    { [root_depth |-> 24, root_visual |-> v.visual_id,
       allowed_depths |-> << [depth |-> 24, visuals |-> << v >>],
                             [depth |-> 8, visuals |-> << >>] >>] :
      v \in { x \in Visuals : x.visual_id = 1 } }

ByteSamples == {0, 1, 2, 4, 128, 255}

\* The call of from_rgb or from_luma, as put_image_impl and into_x_buffer
\* make it for one pixel.
PackRgb ==
    /\ img.fn = "from_rgb"
    /\ xbuf = NoOutput
    /\ xbuf' = IF img.overflow_checks /\ shl_overflows(img.shifts)
               THEN [tag |-> "panic"]
               ELSE [tag |-> "Ok",
                     word |-> from_rgb(img.shifts, img.r, img.g, img.b, "u8")]
    /\ UNCHANGED << screen, pc, newLog, frees, shiftsResult, put, img >>
    /\ UNCHANGED serverVars
    /\ UNCHANGED callVars

PackLuma ==
    /\ img.fn = "from_luma"
    /\ xbuf = NoOutput
    /\ xbuf' = [tag |-> "Ok", word |-> from_luma(img.shifts, img.luma, "u8")]
    /\ UNCHANGED << screen, pc, newLog, frees, shiftsResult, put, img >>
    /\ UNCHANGED serverVars
    /\ UNCHANGED callVars

\* No client has connected and the server holds nothing of the program.
InitIdle ==
    /\ atomExists = [i \in NameIdx |-> FALSE]
    /\ prop = [i \in NameIdx |-> NoProperty]
    /\ rootBg = NoneId
    /\ pixmaps = {}
    /\ gcs = {}
    /\ InitClients
    /\ propsBefore = [c \in Clients |-> prop]

\* Packing with the shifts that discovery returns on a screen, for every
\* kind of visual it accepts.
InitPack ==
    /\ screen \in KindScreens
    /\ get_rgb_shifts(screen).tag = "Ok"
    /\ \E overflow_checks \in BOOLEAN :
         LET shifts == RgbShifts(get_rgb_shifts(screen).shifts) IN
         \/ \E r \in ByteSamples, g \in ByteSamples, b \in ByteSamples :
              img = [fn |-> "from_rgb", shifts |-> shifts, r |-> r, g |-> g,
                     b |-> b, overflow_checks |-> overflow_checks]
         \/ \E luma \in ByteSamples :
              img = [fn |-> "from_luma", shifts |-> shifts, luma |-> luma,
                     overflow_checks |-> overflow_checks]
    /\ xbuf = NoOutput
    /\ InitIdle

NextPack == PackRgb \/ PackLuma

SpecPack == InitPack /\ [][NextPack]_vars

\* --------------------------------------------------- claims: packing

\* The bits a channel's 8-bit field occupies when shifted by s.
Field(s) == s .. (s + 7)

Channels == {"r", "g", "b"}

\* C11: for every pixel format that discovery returns and every 8-bit
\* triple, from_rgb loses no bits and mixes no channels: each shift plus 8
\* is at most 32, the three shifted fields are pairwise disjoint, and the
\* result shifted right by a channel's shift and masked with 0xFF is that
\* channel's value.
C11_LosslessPacking ==
    (img.fn = "from_rgb" /\ xbuf # NoOutput) =>
        /\ xbuf.tag = "Ok"
        /\ \A ch \in Channels : img.shifts[ch] + 8 <= 32
        /\ \A ch \in Channels : \A other \in Channels \ {ch} :
             Field(img.shifts[ch]) \cap Field(img.shifts[other]) = {}
        /\ \A ch \in Channels :
             LowByte(shr(xbuf.word, img.shifts[ch] % 32)) = img[ch]

\* The byte lanes of a word, and those no channel's field touches.
Lane(k) == (8 * k) .. (8 * k + 7)
ChannelBits(shifts) ==
    (Field(shifts.r) \cup Field(shifts.g) \cup Field(shifts.b)) \cap WordBits
FreeLanes(shifts) == { k \in 0..3 : Lane(k) \cap ChannelBits(shifts) = {} }

\* C14: for every pixel format that discovery accepts and every 8-bit l,
\* from_luma(l) agrees with from_rgb(l, l, l) on the bits of the three
\* channels, and differs from it only by holding l as well in the one byte
\* lane that no channel uses.
C14_LumaAgrees ==
    (img.fn = "from_luma" /\ xbuf # NoOutput) =>
        LET rgb == from_rgb(img.shifts, img.luma, img.luma, img.luma, "u8")
            channel == ChannelBits(img.shifts)
        IN  /\ ~shl_overflows(img.shifts)
            /\ xbuf.word \cap channel = rgb \cap channel
            /\ \E k \in FreeLanes(img.shifts) :
                 /\ FreeLanes(img.shifts) = {k}
                 /\ xbuf.word = rgb \cup shl(Bits(img.luma), 8 * k)


\* -------------------------------------------------------- img.rs: images

MaxSamples == 17

\* The image types that make_image_type! defines.
Layouts == {"RgbImage", "RgbaImage", "LumaImage", "LumaAImage"}

\* count_tts! of the closure's pattern: [r, g, b], [r, g, b, _alpha], [y]
\* and [y, _alpha].
channels(layout) ==
    CASE layout = "RgbImage" -> 3
      [] layout = "RgbaImage" -> 4
      [] layout = "LumaImage" -> 1
      [] layout = "LumaAImage" -> 2

\* new_dimensions: both try_into::<u16>() succeed, or ImageTooLarge with
\* the dimensions as given.
new_dimensions(width, height) ==
    IF width <= U16Max /\ height <= U16Max
    THEN [tag |-> "Ok", dimensions |-> << width, height >>]
    ELSE [tag |-> "ImageTooLarge", err |-> << width, height >>]

\* A length test that lets a longer buffer through.
buffer_matches_at_least(width, height, chans, len) ==
    width * height * chans <= len

\* usize::from(width) * usize::from(height) * channels == data.len().
buffer_matches(width, height, chans, len) == width * height * chans = len

\* InnerImage::new for samples of type S.
InnerImage_new(width, height, data, chans, S) ==
    LET dims == new_dimensions(width, height)
    IN  IF dims.tag # "Ok" THEN dims
        ELSE IF buffer_matches(dims.dimensions[1], dims.dimensions[2], chans,
                               Len(data))
        THEN [tag |-> "Ok", dimensions |-> dims.dimensions, data |-> data]
        ELSE [tag |-> "BadBufferSize",
              err |-> << Len(data) * size_of(S), dims.dimensions[1],
                         dims.dimensions[2] >>]

\* $Image::new.
Image_new(layout, width, height, data, S) ==
    InnerImage_new(width, height, data, channels(layout), S)

\* <[S]>::as_chunks::<N>: the chunks of N samples and the rest.
RECURSIVE as_chunks(_, _)
as_chunks(data, N) ==
    IF Len(data) < N THEN [chunks |-> << >>, remainder |-> data]
    ELSE LET rest == as_chunks(SubSeq(data, N + 1, Len(data)), N)
         IN  [chunks |-> << SubSeq(data, 1, N) >> \o rest.chunks,
              remainder |-> rest.remainder]

\* A closure that takes the pixel's last samples for the colour.
pixel_word_from_last(layout, rgb_shifts, chunk, S) ==
    LET n == Len(chunk) IN
    IF layout \in {"RgbImage", "RgbaImage"}
    THEN from_rgb(rgb_shifts, chunk[n - 2], chunk[n - 1], chunk[n], S)
    ELSE from_luma(rgb_shifts, chunk[n], S)

\* The closure of each image type: |[r, g, b]| and |[r, g, b, _alpha]| call
\* from_rgb(r, g, b), |[y]| and |[y, _alpha]| call from_luma(y).
pixel_word(layout, rgb_shifts, chunk, S) ==
    IF layout \in {"RgbImage", "RgbaImage"}
    THEN from_rgb(rgb_shifts, chunk[1], chunk[2], chunk[3], S)
    ELSE from_luma(rgb_shifts, chunk[1], S)

\* IntoXBuffer::into_x_buffer of the image types.
into_x_buffer(layout, data, rgb_shifts, S) ==
    LET split == as_chunks(data, channels(layout))
    IN  IF Len(split.remainder) # 0 THEN [tag |-> "panic"]
        ELSE [tag |-> "XBuffer",
              words |-> [i \in 1..Len(split.chunks) |->
                            pixel_word(layout, rgb_shifts, split.chunks[i], S)]]

\* Formats whose 8-bit fields start inside the word.
PixelFormats ==
    { [r |-> 16, g |-> 8, b |-> 0], [r |-> 0, g |-> 8, b |-> 16],
      [r |-> 24, g |-> 16, b |-> 8], [r |-> 20, g |-> 10, b |-> 0] }

ImageWidths == {0, 1, 2, 65535, 65536, 70000}
ImageHeights == {1, 2, 65536}
Seeds == {0, 1}

\* The sample at a position of the buffer, different from its neighbours.
SampleAt(S, seed, i) ==
    IF S = "u8" THEN (37 * i + 101 * seed) % 256
    ELSE (4663 * i + 25801 * seed) % 65536

\* $Image::new on the arguments drawn.
ImageNew ==
    /\ img.fn = "new"
    /\ xbuf = NoOutput
    /\ xbuf' = Image_new(img.layout, img.width, img.height, img.data, img.S)
    /\ UNCHANGED << screen, pc, newLog, frees, shiftsResult, put, img >>
    /\ UNCHANGED serverVars
    /\ UNCHANGED callVars

\* into_x_buffer on the image constructed.
IntoXBuffer ==
    /\ img.fn = "new"
    /\ xbuf.tag = "Ok"
    /\ img' = [img EXCEPT !.fn = "into_x_buffer"]
    /\ xbuf' = [dimensions |-> xbuf.dimensions, data |-> xbuf.data]
                 @@ into_x_buffer(img.layout, xbuf.data, img.rgb_shifts, img.S)
    /\ UNCHANGED << screen, pc, newLog, frees, shiftsResult, put >>
    /\ UNCHANGED serverVars
    /\ UNCHANGED callVars

InitImage ==
    /\ screen \in KindScreens
    /\ get_rgb_shifts(screen).shifts = << 16, 8, 0 >>
    /\ \E layout \in Layouts, S \in Subpixels, width \in ImageWidths,
          height \in ImageHeights, len \in 0..MaxSamples, seed \in Seeds,
          rgb_shifts \in PixelFormats :
         img = [fn |-> "new", layout |-> layout, S |-> S, width |-> width,
                height |-> height,
                data |-> [i \in 1..len |-> SampleAt(S, seed, i)],
                rgb_shifts |-> rgb_shifts]
    /\ xbuf = NoOutput
    /\ InitIdle

NextImage == ImageNew \/ IntoXBuffer

SpecImage == InitImage /\ [][NextImage]_vars

\* ---------------------------------------------------- claims: images

\* C12: construction succeeds exactly when both dimensions fit 16 bits and
\* the buffer holds width * height * channels samples, and the image then
\* has the dimensions and the buffer given; a dimension over 65535 gives
\* ImageTooLarge with the dimensions as given, whatever the buffer's length;
\* any other length gives BadBufferSize with the buffer's length in bytes
\* and the dimensions.
C12_ConstructionChecked ==
    (img.fn = "new" /\ xbuf # NoOutput) =>
        LET fits == img.width <= 65535 /\ img.height <= 65535
            wanted == img.width * img.height * channels(img.layout)
        IN  /\ xbuf.tag = "Ok" <=> (fits /\ Len(img.data) = wanted)
            /\ xbuf.tag = "Ok" =>
                 /\ xbuf.dimensions = << img.width, img.height >>
                 /\ xbuf.data = img.data
            /\ ~fits =>
                 /\ xbuf.tag = "ImageTooLarge"
                 /\ xbuf.err = << img.width, img.height >>
            /\ (fits /\ Len(img.data) # wanted) =>
                 /\ xbuf.tag = "BadBufferSize"
                 /\ xbuf.err = << Len(img.data) * (IF img.S = "u16" THEN 2 ELSE 1),
                                  img.width, img.height >>

\* A buffer of 16-bit samples longer than the image is refused.
C12_Witness ==
    /\ img.fn = "new"
    /\ img.S = "u16"
    /\ img.width = 2
    /\ img.height = 2
    /\ Len(img.data) > 4 * channels(img.layout)
    /\ xbuf.tag = "BadBufferSize"

HasAlpha(layout) == layout \in {"RgbaImage", "LumaAImage"}

\* The buffer with every alpha sample replaced.
WithAlpha(layout, data, a) ==
    [k \in 1..Len(data) |->
        IF HasAlpha(layout) /\ k % channels(layout) = 0 THEN a ELSE data[k]]

\* The sample of pixel i's k-th channel as 8 bits.
Reduced(S, v) == IF S = "u16" THEN v \div 256 ELSE v
Colour(i, k) ==
    Reduced(img.S, xbuf.data[(i - 1) * channels(img.layout) + k])

\* C13: into_x_buffer of a constructed image returns width * height words;
\* word i is from_rgb (RGB, RGBA) or from_luma (luma, luma with alpha) of
\* the colour samples of pixel i reduced to 8 bits, and no alpha sample has
\* any influence on the words.
C13_WordPerPixel ==
    img.fn = "into_x_buffer" =>
        /\ xbuf.tag = "XBuffer"
        /\ Len(xbuf.words) = img.width * img.height
        /\ \A i \in 1..Len(xbuf.words) :
             xbuf.words[i] =
                 IF img.layout \in {"RgbImage", "RgbaImage"}
                 THEN from_rgb(img.rgb_shifts, Colour(i, 1), Colour(i, 2),
                               Colour(i, 3), "u8")
                 ELSE from_luma(img.rgb_shifts, Colour(i, 1), "u8")
        /\ \A a \in {0, 255} :
             into_x_buffer(img.layout, WithAlpha(img.layout, xbuf.data, a),
                           img.rgb_shifts, img.S).words = xbuf.words

\* Four pixels of 16-bit samples with alpha have been converted.
C13_Witness ==
    /\ img.fn = "into_x_buffer"
    /\ img.layout = "RgbaImage"
    /\ img.S = "u16"
    /\ xbuf.tag = "XBuffer"
    /\ Len(xbuf.words) = 4
    /\ xbuf.words[1] # xbuf.words[2]


\* ------------------------------------------- img.rs: decoded RGBA buffers

MaxPixels == 2

\* Pixels of an image decoded into RGBA bytes.
RgbaPixels ==
    { << 1, 2, 3, 255 >>, << 255, 0, 128, 0 >>, << 7, 7, 7, 128 >>,
      << 0, 64, 255, 1 >> }

RECURSIVE Flatten(_)
Flatten(pixels) ==
    IF pixels = << >> THEN << >> ELSE Head(pixels) \o Flatten(Tail(pixels))

\* The loop of fix_channel_order: every chunk [r, g, b, _] becomes the
\* bytes of from_rgb(r, g, b).
RECURSIVE repacked(_, _, _)
repacked(chunks, rgb_shifts, endian) ==
    IF chunks = << >> THEN << >>
    ELSE LET chunk == Head(chunks)
         IN  to_ne_bytes(from_rgb(rgb_shifts, chunk[1], chunk[2], chunk[3],
                                  "u8"), endian)
             \o repacked(Tail(chunks), rgb_shifts, endian)

\* fix_channel_order on a target of the given endianness: the buffer is
\* rewritten only if from_rgb(1, 2, 3) is not the bytes [1, 2, 3, 0].
fix_channel_order(data, rgb_shifts, endian) ==
    IF to_ne_bytes(from_rgb(rgb_shifts, 1, 2, 3, "u8"), endian)
           # << 1, 2, 3, 0 >>
    THEN LET split == as_chunks(data, 4)
         IN  IF Len(split.remainder) # 0 THEN [tag |-> "panic"]
             ELSE [tag |-> "Vec",
                   bytes |-> repacked(split.chunks, rgb_shifts, endian)]
    ELSE [tag |-> "Vec", bytes |-> data]

\* into_x_buffer of image::DynamicImage, from the RGBA bytes that the image
\* crate hands over.
FixChannelOrder ==
    /\ img.fn = "fix_channel_order"
    /\ xbuf = NoOutput
    /\ xbuf' = fix_channel_order(img.data, img.rgb_shifts, img.endian)
    /\ UNCHANGED << screen, pc, newLog, frees, shiftsResult, put, img >>
    /\ UNCHANGED serverVars
    /\ UNCHANGED callVars

InitRgba ==
    /\ screen \in KindScreens
    /\ get_rgb_shifts(screen).shifts = << 16, 8, 0 >>
    /\ \E pixels \in SeqsUpTo(RgbaPixels, MaxPixels), endian \in Endians,
          rgb_shifts \in PixelFormats :
         img = [fn |-> "fix_channel_order", data |-> Flatten(pixels),
                rgb_shifts |-> rgb_shifts, endian |-> endian]
    /\ xbuf = NoOutput
    /\ InitIdle

NextRgba == FixChannelOrder

SpecRgba == InitRgba /\ [][NextRgba]_vars

\* ------------------------------------------- claims: decoded RGBA buffers

\* C16: for every pixel format and every RGBA byte buffer, each 4-byte pixel
\* of fix_channel_order's result is the native-endian bytes of
\* from_rgb(r, g, b) of that pixel, so that no alpha byte of the source is
\* left in the output.
C16_AlphaDropped ==
    (img.fn = "fix_channel_order" /\ xbuf # NoOutput) =>
        /\ xbuf.tag = "Vec"
        /\ Len(xbuf.bytes) = Len(img.data)
        /\ \A p \in 1..(Len(img.data) \div 4) :
             SubSeq(xbuf.bytes, 4 * p - 3, 4 * p) =
                 to_ne_bytes(from_rgb(img.rgb_shifts, img.data[4 * p - 3],
                                      img.data[4 * p - 2], img.data[4 * p - 1],
                                      "u8"),
                             img.endian)


\* ------------------------------------------------- claims: put_image

PutReturned(c) == pc[c] = "ready" /\ op[c] = "put_image"

\* C15: put_image sends PutImage only when both dimensions fit 16 bits and
\* the buffer holds width * height pixels; otherwise it returns
\* ImageTooLarge with the dimensions as given, or BadImageBufferSize, and
\* sends nothing; when the request is sent the call returns an error
\* exactly when the request is not accepted.
C15_PutImageChecked ==
    PutReturned(1) =>
        LET a == put[1]
            fits == a.width <= 65535 /\ a.height <= 65535
            exact == fits /\ a.width * a.height = a.len
        IN  /\ log[1] # << >> <=> exact
            /\ exact =>
                 /\ Len(log[1]) = 1
                 /\ log[1][1].req = "PutImage"
                 /\ log[1][1].id = PixmapOf(1)
                 /\ result[1] = (IF log[1][1].ok THEN "Ok" ELSE "XcbError")
            /\ ~fits =>
                 /\ result[1] = "ImageTooLarge"
                 /\ a.err = << a.width, a.height >>
            /\ (fits /\ ~exact) =>
                 /\ result[1] = "BadImageBufferSize"
                 /\ a.err = << a.width, a.height, a.len >>

\* A buffer one pixel too long was refused and nothing was sent.
C15_Witness ==
    /\ PutReturned(1)
    /\ put[1].width = 2
    /\ put[1].height = 2
    /\ put[1].len = 5
    /\ result[1] = "BadImageBufferSize"
    /\ log[1] = << >>

\* ------------------------------------------- claims: old property values

\* C17: set_background never sends KillClient for the id of the pixmap it
\* is installing, not even when it is called again and the properties
\* already hold that id.
C17_NeverKillsOwn == KillsOf(1, PixmapOf(1)) = {}

\* A property value that is one non-zero PIXMAP item.
WellFormed(p) ==
    /\ p.type = "PIXMAP"
    /\ p.format = 32
    /\ Len(p.items) = 1
    /\ p.items[1] # 0

\* KillClient is sent for property i only if its atom was found, not
\* created, and the read was answered with one well-formed item: that id.
KillOnlyWellFormed(c, i) ==
    \A k \in SentFor(c, "KillClient", i) :
        /\ SentFor(c, "InternAtomCreate", i) = {}
        /\ Accepted(c, "InternAtom", i) # {}
        /\ atomExists[i]
        /\ Accepted(c, "GetProperty", i) # {}
        /\ WellFormed(propsBefore[c][i])
        /\ log[c][k].id = propsBefore[c][i].items[1]

\* The read of property i failed or was answered with another shape.
ReadUseless(c, i) ==
    /\ SentFor(c, "GetProperty", i) # {}
    /\ Accepted(c, "GetProperty", i) = {} \/ ~WellFormed(propsBefore[c][i])

\* Nothing is killed for property i, and the new id is sent to it.
WrittenUnkilled(c, i) ==
    /\ SentFor(c, "KillClient", i) = {}
    /\ \E k \in SentFor(c, "ChangeProperty", i) : log[c][k].id = PixmapOf(c)

Added(before, after) ==
    IF Len(after) > Len(before)
    THEN { after[k] : k \in (Len(before) + 1)..Len(after) }
    ELSE { after[k] : k \in DOMAIN after }

\* The server refuses nothing it can carry out: a request of the step fails
\* only if the client's connection has been closed, or if it is a
\* KillClient for an id that is no resource.
NoFault(c) ==
    \A r \in Added(log[c], log'[c]) \cup Added(newLog[c], newLog'[c]) :
        r.ok \/ ~Alive(c) \/ r.req = "KillClient"

\* One step of client c, which constructs its handle and calls
\* set_background once.
StepConc(c) ==
    \/ New(c) /\ NoFault(c)
    \/ SetBackground(c) /\ calls[c] = 0
    \/ InternAtom(c) /\ NoFault(c)
    \/ InternAtomCreate(c) /\ NoFault(c)
    \/ GetProperty(c) /\ NoFault(c)
    \/ KillClient(c)
    \/ ChangeProperty(c) /\ NoFault(c)
    \/ KillAllTemporary(c)
    \/ SetCloseDownMode(c)
    \/ ChangeWindowAttributes(c) /\ NoFault(c)
    \/ ClearArea(c)

\* The server as two wallpaper setters started together find it: each
\* property is absent or holds the pixmap an earlier setter left.
InitConc ==
    /\ screen \in LifecycleScreens
    /\ get_rgb_shifts(screen).tag = "Ok"
    /\ atomExists \in [NameIdx -> BOOLEAN]
    /\ prop \in [NameIdx -> {NoProperty, Property("PIXMAP", 32, << 4 >>)}]
    /\ \A i \in NameIdx : prop[i] # NoProperty => atomExists[i]
    /\ rootBg = NoneId
    /\ pixmaps = OldIds \ {3}
    /\ gcs = {}
    /\ InitClients
    /\ InitNoImage
    /\ propsBefore = [c \in Clients |-> prop]

\* The server takes the requests of the two connections in any order, those
\* of one connection in the order sent.
NextConc == \E c \in Clients : StepConc(c)

SpecConc == InitConc /\ [][NextConc]_vars

\* --------------------------------------------- claims: two clients at once

\* C18: when two clients each run set_background for their own pixmap at
\* the same time, once both calls have finished the two properties hold the
\* same pixmap id and that id is the root window's background pixmap.
C18_Converge ==
    (Returned(1) /\ Returned(2)) =>
        \E id \in Clients \cup OldIds :
            /\ \A i \in NameIdx : Holds(prop[i], id)
            /\ rootBg = id

====
